---- MODULE Spec2Model ----
(***************************************************************************)
(* State-machine model of app.py: the pipeline                             *)
(*   make_session -> ensure_bucket -> upload_folder_to_s3 ->               *)
(*   list_s3_images -> bulk_detect_and_save -> generate_html_report.       *)
(*                                                                         *)
(* Paths and object keys are sequences of one-character strings, so that   *)
(* os.path.splitext and str.lower are computed character by character.     *)
(* Confidences are integers in units of 0.001 (93420 is 93.42).            *)
(***************************************************************************)
EXTENDS Integers, Sequences, FiniteSets, TLC

\* ------------------------------------------------------------- bounds
\* Most files a source folder holds in the model.
MaxFiles == 3
\* Most labels the labeling service returns for one image in the pipeline.
MaxRespLabels == 2
\* Largest max_labels argument tried on the detector alone.
MaxLabelsArg == 2

\* ---------------------------------------------------- program constants
\* time.sleep(0.1), in milliseconds
DelayMs == 100
\* --max-labels default
DefaultMaxLabels == 10
\* --min-confidence default, 70.0 in units of 0.001
DefaultMinConf == 70000
\* top of the service's confidence scale, 100.0
MaxConf == 100 * 1000

\* IMAGE_EXTS
IMAGE_EXTS == { <<".", "j", "p", "g">>, <<".", "j", "p", "e", "g">>, <<".", "p", "n", "g">> }
\* --prefix default, "images/"
DefaultPrefix == <<"i", "m", "a", "g", "e", "s", "/">>
\* --region default
DefaultRegion == "us-east-1"
\* the --bucket argument used throughout
BucketName == "bkt"

\* ------------------------------------------------------ string helpers
\* str.lower on one character (over the characters the model uses)
LowerChar(c) ==
    CASE c = "J" -> "j" [] c = "P" -> "p" [] c = "G" -> "g"
      [] c = "N" -> "n" [] c = "E" -> "e" [] OTHER -> c

\* str.lower
Lower(s) == [i \in 1..Len(s) |-> LowerChar(s[i])]

\* str.rfind of one character: the last index holding c, 0 when there is none
RFind(s, c) ==
    IF \E i \in 1..Len(s) : s[i] = c
    THEN CHOOSE i \in 1..Len(s) : s[i] = c /\ \A j \in (i+1)..Len(s) : s[j] # c
    ELSE 0

\* os.path.splitext(p)[1]: the text from the last dot on, provided that dot
\* comes after the last separator and is not one of the leading dots of the
\* basename; otherwise the empty string.
SplitExt(p) ==
    LET sepIndex == RFind(p, "/")
        dotIndex == RFind(p, ".")
    IN  IF dotIndex > sepIndex
           /\ \E k \in (sepIndex + 1)..(dotIndex - 1) : p[k] # "."
        THEN SubSeq(p, dotIndex, Len(p))
        ELSE <<>>

\* os.path.basename
Basename(p) == SubSeq(p, RFind(p, "/") + 1, Len(p))

\* variant of IsImage that compares the extension without lower-casing it
IsImageBad(p) == SplitExt(p) \in IMAGE_EXTS
\* ext = os.path.splitext(f)[1].lower(); ext in IMAGE_EXTS
IsImage(p) == Lower(SplitExt(p)) \in IMAGE_EXTS

\* os.path.join(prefix, rel).replace("\\", "/") for a relative rel
JoinKey(prefix, rel) ==
    IF prefix = <<>> \/ prefix[Len(prefix)] = "/"
    THEN prefix \o rel
    ELSE prefix \o <<"/">> \o rel

\* str.startswith
StartsWith(s, p) == Len(s) >= Len(p) /\ SubSeq(s, 1, Len(p)) = p

\* sep.join(parts) on a sequence of strings
RECURSIVE JoinStr(_, _)
JoinStr(sep, parts) ==
    IF parts = <<>> THEN ""
    ELSE IF Len(parts) = 1 THEN parts[1]
    ELSE parts[1] \o sep \o JoinStr(sep, Tail(parts))

\* f"s3://{bucket}/{key}"
S3Uri(bucket, key) == <<"s3://" \o bucket \o "/">> \o key


\* ------------------------------------------------- the labeling service
\* Labels the service can detect, most confident first; Confidence in 0.001.
LabelPool ==
    << [Name |-> "Animal", Confidence |-> 99996, Parents |-> <<>>],
       [Name |-> "Cat",    Confidence |-> 93424,
        Parents |-> << [Name |-> "Animal"], [Name |-> "Mammal"] >>],
       [Name |-> "Pet",    Confidence |-> 70004, Parents |-> << [Name |-> "Animal"] >>],
       [Name |-> "Toy",    Confidence |-> 65015, Parents |-> <<>>] >>

\* All subsequences of s (order kept) of length at most n
RECURSIVE SubSeqs(_, _)
SubSeqs(s, n) ==
    IF s = <<>> \/ n = 0 THEN { <<>> }
    ELSE SubSeqs(Tail(s), n)
         \cup { <<Head(s)>> \o t : t \in SubSeqs(Tail(s), n - 1) }

\* The request contract of detect_labels(MaxLabels, MinConfidence): at most
\* MaxLabels labels, each with Confidence in [MinConfidence, 100].
ServiceResponses(max_labels, min_conf) ==
    SubSeqs(SelectSeq(LabelPool,
                      LAMBDA l : l.Confidence >= min_conf /\ l.Confidence <= MaxConf),
            max_labels)

\* ------------------------------------------------------ Label Detector
\* round(x, 2) on a value in units of 0.001: the nearest multiple of 0.01,
\* an exact tie going to the even neighbour.
Round2(c) ==
    LET q == c \div 10
        r == c % 10
    IN  IF r < 5 THEN 10 * q
        ELSE IF r > 5 THEN 10 * (q + 1)
        ELSE IF q % 2 = 0 THEN 10 * q ELSE 10 * (q + 1)

\* variant of NormLabel that stores the confidence as received
NormLabelNoRound(lab) ==
    [ name       |-> lab.Name,
      confidence |-> lab.Confidence,
      parents    |-> [j \in 1..Len(lab.Parents) |-> lab.Parents[j].Name] ]
\* One normalised label: name verbatim, confidence rounded, parent names.
NormLabel(lab) ==
    [ name       |-> lab.Name,
      confidence |-> Round2(lab.Confidence),
      parents    |-> [j \in 1..Len(lab.Parents) |-> lab.Parents[j].Name] ]

\* detect_labels_for_s3_object, given the service's response resp
DetectLabels(bucket, key, resp) ==
    [ image  |-> S3Uri(bucket, key),
      labels |-> [i \in 1..Len(resp) |-> NormLabel(resp[i])] ]


\* ------------------------------------------------------------ the state
VARIABLES
    pc,          \* where main() is: the stage about to run
    exitCode,    \* -1 while running, then the process exit status
    started,     \* the stages entered so far, in order
    failedStage, \* the stage that ended the process, "none" otherwise
    region,      \* --region
    localFolder, \* --local-folder: "unset" (empty), "missing" or "dir"
    localFiles,  \* relative paths of the files under the folder
    maxLabels,   \* --max-labels
    minConf,     \* --min-confidence
    priorJson,   \* out/labels.json as it was when the process started
    bucketState, \* the storage service: "absent", "mine" or "theirs"
    bucketObjs,  \* keys stored in the bucket, in the service's listing order
    createReqs,  \* create_bucket requests issued
    createCode,  \* the service's answer to create_bucket, "none" before it
    puts,        \* upload_file calls issued, in order
    uploaded,    \* upload_folder_to_s3's counter
    keys,        \* what list_s3_images returned
    idx,         \* position of the key loop, 1-based
    res,         \* the detector's result for keys[idx], once returned
    results,     \* the accumulator
    outcomes,    \* per processed key: "ok" or "err"
    failLog,     \* keys printed as failed
    calls,       \* detector calls issued
    slept,       \* total time.sleep, in ms
    outDir,      \* whether out/ exists
    csvFile,     \* out/labels.csv
    jsonFile,    \* out/labels.json
    htmlFile,    \* out/report.html
    wrote        \* the output files this run has opened for writing

vars == << pc, exitCode, started, failedStage, region, localFolder, localFiles,
           maxLabels, minConf, priorJson, bucketState, bucketObjs, createReqs,
           createCode, puts,
           uploaded, keys, idx, res, results, outcomes, failLog, calls, slept,
           outDir, csvFile, jsonFile, htmlFile, wrote >>

args == << region, localFolder, localFiles, maxLabels, minConf, priorJson >>
ingestVars == << bucketState, bucketObjs, createReqs, createCode, puts, uploaded >>
loopVars == << keys, idx, res, results, outcomes, failLog, calls, slept >>
fsVars == << outDir, csvFile, jsonFile, htmlFile, wrote >>

NoFile == [exists |-> FALSE, data |-> <<>>]
File(d) == [exists |-> TRUE, data |-> d]
NoRes == [image |-> <<>>, labels |-> <<>>]

\* writer.writerow(["image", "label", "confidence", "parents"])
CsvHeader == <<"image", "label", "confidence", "parents">>

\* The rows written for one result: one per label, parents joined with ";"
CsvRows(r) ==
    [i \in 1..Len(r.labels) |->
        << r.image, r.labels[i].name, r.labels[i].confidence,
           JoinStr(";", r.labels[i].parents) >>]

\* generate_html_report's rows: one <tr> per label of each item
RECURSIVE HtmlRows(_)
HtmlRows(data) ==
    IF data = <<>> THEN <<>>
    ELSE [i \in 1..Len(data[1].labels) |->
            << data[1].image, data[1].labels[i].name,
               data[1].labels[i].confidence,
               JoinStr(", ", data[1].labels[i].parents) >>]
         \o HtmlRows(Tail(data))

\* sys.exit(1) in stage st
Exit1(st) ==
    /\ pc' = "exit"
    /\ exitCode' = 1
    /\ failedStage' = st

\* an exception nothing catches: traceback, exit status 1
Uncaught(st) ==
    /\ pc' = "crashed"
    /\ exitCode' = 1
    /\ failedStage' = st


\* ---------------------------------------------------------------- inputs
\* Files a source folder may hold (paths relative to the folder):
\* a.jpg, b.PNG, c.txt, s/d.jpeg, s/.jpg, e.jpgx
FilePool ==
    { <<"a", ".", "j", "p", "g">>,
      <<"b", ".", "P", "N", "G">>,
      <<"c", ".", "t", "x", "t">>,
      <<"s", "/", "d", ".", "j", "p", "e", "g">>,
      <<"s", "/", ".", "j", "p", "g">>,
      <<"e", ".", "j", "p", "g", "x">> }

\* What the bucket may hold before the run: images/z.png, images/n.md and
\* x/q.jpg (outside the prefix)
PreObjChoices ==
    { <<>>,
      << <<"i", "m", "a", "g", "e", "s", "/", "z", ".", "p", "n", "g">> >>,
      << <<"i", "m", "a", "g", "e", "s", "/", "n", ".", "m", "d">>,
         <<"x", "/", "q", ".", "j", "p", "g">> >>,
      << <<"x", "/", "q", ".", "j", "p", "g">>,
         <<"i", "m", "a", "g", "e", "s", "/", "z", ".", "p", "n", "g">> >> }

\* out/ as an earlier completed run left it: one image, one label
PriorResults ==
    << DetectLabels(BucketName,
                    <<"i", "m", "a", "g", "e", "s", "/", "o", ".", "j", "p", "g">>,
                    << LabelPool[2] >>) >>
PriorCsv == <<CsvHeader>> \o CsvRows(PriorResults[1])

\* Responses tried in the pipeline: the most confident labels first
PipelineResponses(max_labels, min_conf) ==
    { r \in ServiceResponses(max_labels, min_conf) :
        /\ Len(r) <= MaxRespLabels
        /\ \A i \in 1..Len(r) : r[i] = LabelPool[i] }

\* Some enumeration of a finite set (os.walk's order is the file system's)
SetToSeq(S) ==
    CHOOSE f \in [1..Cardinality(S) -> S] : \A x \in S : \E i \in DOMAIN f : f[i] = x

Init ==
    /\ pc = "session"
    /\ exitCode = -1
    /\ started = <<>>
    /\ failedStage = "none"
    /\ region \in {DefaultRegion, "eu-west-1"}
    /\ localFolder \in {"unset", "missing", "dir"}
    /\ localFiles \in { S \in SUBSET FilePool :
                          /\ Cardinality(S) <= MaxFiles
                          /\ localFolder # "dir" => S = {} }
    /\ maxLabels = DefaultMaxLabels
    /\ minConf = DefaultMinConf
    /\ bucketState \in {"absent", "mine", "theirs"}
    /\ bucketObjs \in IF bucketState = "absent" THEN { <<>> } ELSE PreObjChoices
    /\ createReqs = <<>>
    /\ createCode = "none"
    /\ puts = <<>>
    /\ uploaded = 0
    /\ keys = <<>>
    /\ idx = 0
    /\ res = NoRes
    /\ results = <<>>
    /\ outcomes = <<>>
    /\ failLog = <<>>
    /\ calls = 0
    /\ slept = 0
    /\ \E prior \in BOOLEAN :
         /\ outDir = prior
         /\ csvFile = IF prior THEN File(PriorCsv) ELSE NoFile
         /\ jsonFile = IF prior THEN File(PriorResults) ELSE NoFile
         /\ priorJson = jsonFile
         /\ htmlFile = IF prior THEN File(HtmlRows(PriorResults)) ELSE NoFile
    /\ wrote = {}

\* ------------------------------------------------------- make_session
\* the exceptions make_session catches
SessionCaught(e) == e \in {"NoCredentialsError", "ClientError"}

MakeSession ==
    /\ pc = "session"
    /\ started' = Append(started, "session")
    /\ \E o \in {"ok", "NoCredentialsError", "ClientError"} :
         IF SessionCaught(o)
         THEN Exit1("session")
         ELSE pc' = "bucket" /\ UNCHANGED << exitCode, failedStage >>
    /\ UNCHANGED << args, ingestVars, loopVars, fsVars >>

\* ------------------------------------------------------ ensure_bucket
\* The request ensure_bucket sends: no location constraint in us-east-1
CreateRequest(bucket, reg) ==
    IF reg = "us-east-1"
    THEN [Bucket |-> bucket, LocationConstraint |-> "omitted"]
    ELSE [Bucket |-> bucket, LocationConstraint |-> reg]

\* What the storage service answers: "created" or an error code
CreateResponses(state, reg, req) ==
    IF (req.LocationConstraint = "omitted") # (reg = "us-east-1")
    THEN {"IllegalLocationConstraintException"}
    ELSE {"AccessDenied"} \cup
         ( CASE state = "absent" -> {"created"}
             [] state = "mine"   -> IF reg = "us-east-1"
                                    THEN {"created", "BucketAlreadyOwnedByYou"}
                                    ELSE {"BucketAlreadyOwnedByYou"}
             [] OTHER            -> {"BucketAlreadyExists"} )

\* variant of BucketTolerated that passes only a bucket the caller owns
BucketToleratedOwnedOnly(code) == code \in {"BucketAlreadyOwnedByYou"}
\* the error codes ensure_bucket reports as "Bucket exists/owned" and passes
BucketTolerated(code) == code \in {"BucketAlreadyOwnedByYou", "BucketAlreadyExists"}

\* main: the stage after ensure_bucket (if a.local_folder: ...)
AfterBucket == IF localFolder # "unset" THEN "upload" ELSE "list"

EnsureBucket ==
    /\ pc = "bucket"
    /\ started' = Append(started, "bucket")
    /\ LET req == CreateRequest(BucketName, region)
       IN  /\ createReqs' = Append(createReqs, req)
           /\ \E code \in CreateResponses(bucketState, region, req) :
                /\ createCode' = code
                /\ bucketState' = IF code = "created" THEN "mine" ELSE bucketState
                /\ IF code = "created" \/ BucketTolerated(code)
                   THEN pc' = AfterBucket /\ UNCHANGED << exitCode, failedStage >>
                   ELSE Exit1("bucket")
    /\ UNCHANGED << args, bucketObjs, puts, uploaded, loopVars, fsVars >>


\* ------------------------------------------------ upload_folder_to_s3
\* variant of UploadKeys on IsImageBad
UploadKeysNoLower(prefix, walk) ==
    LET kept == SelectSeq(walk, LAMBDA f : IsImageBad(Basename(f)))
    IN  [i \in 1..Len(kept) |-> JoinKey(prefix, kept[i])]
\* The keys upload_file is called with, walking the files in order walk
UploadKeys(prefix, walk) ==
    LET kept == SelectSeq(walk, LAMBDA f : IsImage(Basename(f)))
    IN  [i \in 1..Len(kept) |-> JoinKey(prefix, kept[i])]

\* The storage service after a put of each key of ks: an existing key is
\* overwritten in place, a new one is added
RECURSIVE PutAll(_, _)
PutAll(objs, ks) ==
    IF ks = <<>> THEN objs
    ELSE PutAll(IF \E i \in 1..Len(objs) : objs[i] = Head(ks)
                THEN objs ELSE Append(objs, Head(ks)),
                Tail(ks))

\* if uploaded == 0: sys.exit(1)
UploadFails(n) == n = 0

UploadFolder ==
    /\ pc = "upload"
    /\ started' = Append(started, "upload")
    /\ IF localFolder # "dir"
       THEN /\ Exit1("upload")
            /\ UNCHANGED << puts, uploaded, bucketObjs >>
       ELSE LET ks == UploadKeys(DefaultPrefix, SetToSeq(localFiles))
            IN  /\ puts' = puts \o ks
                /\ uploaded' = Len(ks)
                /\ bucketObjs' = PutAll(bucketObjs, ks)
                /\ IF UploadFails(Len(ks))
                   THEN Exit1("upload")
                   ELSE pc' = "list" /\ UNCHANGED << exitCode, failedStage >>
    /\ UNCHANGED << args, bucketState, createReqs, createCode, loopVars, fsVars >>

\* ------------------------------------------------------ list_s3_images
\* paginate(Bucket, Prefix): the stored keys that start with the prefix
ListObjects(objs, prefix) == SelectSeq(objs, LAMBDA k : StartsWith(k, prefix))

\* the keys list_s3_images keeps
ListedKeys(objs, prefix) == SelectSeq(ListObjects(objs, prefix), IsImage)

\* variant of ListFails that accepts an empty listing
ListFailsNever(ks) == FALSE
\* if not keys: sys.exit(1)
ListFails(ks) == ks = <<>>

ListImages ==
    /\ pc = "list"
    /\ started' = Append(started, "list")
    /\ LET ks == ListedKeys(bucketObjs, DefaultPrefix)
       IN  /\ keys' = ks
           /\ IF ListFails(ks)
              THEN Exit1("list")
              ELSE pc' = "bulk" /\ UNCHANGED << exitCode, failedStage >>
    /\ UNCHANGED << args, ingestVars, idx, res, results, outcomes, failLog,
                    calls, slept, fsVars >>

\* ------------------------------------------------ bulk_detect_and_save
\* where the key loop goes once position i is reached
LoopPc(i) == IF i <= Len(keys) THEN "call" ELSE "json"

\* variant of BulkOpen that also opens labels.json for writing at the start
BulkOpenTruncatesJson ==
    /\ pc = "bulk"
    /\ started' = Append(started, "bulk")
    /\ outDir' = TRUE
    /\ csvFile' = File(<<CsvHeader>>)
    /\ jsonFile' = File(<<>>)
    /\ wrote' = wrote \cup {"csv", "json"}
    /\ results' = <<>>
    /\ idx' = 1
    /\ pc' = LoopPc(1)
    /\ UNCHANGED << exitCode, failedStage, args, ingestVars, keys, res, outcomes,
                    failLog, calls, slept, htmlFile >>
\* makedirs, open(csv_path, "w"), the header row
BulkOpen ==
    /\ pc = "bulk"
    /\ started' = Append(started, "bulk")
    /\ outDir' = TRUE
    /\ csvFile' = File(<<CsvHeader>>)
    /\ wrote' = wrote \cup {"csv"}
    /\ results' = <<>>
    /\ idx' = 1
    /\ pc' = LoopPc(1)
    /\ UNCHANGED << exitCode, failedStage, args, ingestVars, keys, res, outcomes,
                    failLog, calls, slept, jsonFile, htmlFile >>

\* the detector returns for keys[idx]
DetectOk ==
    /\ pc = "call"
    /\ \E resp \in PipelineResponses(maxLabels, minConf) :
         res' = DetectLabels(BucketName, keys[idx], resp)
    /\ calls' = calls + 1
    /\ pc' = "record"
    /\ UNCHANGED << exitCode, started, failedStage, args, ingestVars, keys, idx,
                    results, outcomes, failLog, slept, fsVars >>

\* variant of DetectClientError that leaves the loop at the first failure
DetectClientErrorAbort ==
    /\ pc = "call"
    /\ calls' = calls + 1
    /\ failLog' = Append(failLog, keys[idx])
    /\ outcomes' = Append(outcomes, "err")
    /\ idx' = idx + 1
    /\ pc' = "json"
    /\ UNCHANGED << exitCode, started, failedStage, args, ingestVars, keys, res,
                    results, slept, fsVars >>
\* variant of DetectClientError that sleeps after a failure too
DetectClientErrorSleeps ==
    /\ pc = "call"
    /\ calls' = calls + 1
    /\ failLog' = Append(failLog, keys[idx])
    /\ outcomes' = Append(outcomes, "err")
    /\ slept' = slept + DelayMs
    /\ idx' = idx + 1
    /\ pc' = LoopPc(idx + 1)
    /\ UNCHANGED << exitCode, started, failedStage, args, ingestVars, keys, res,
                    results, fsVars >>
\* the detector raises ClientError for keys[idx]: printed, next key
DetectClientError ==
    /\ pc = "call"
    /\ calls' = calls + 1
    /\ failLog' = Append(failLog, keys[idx])
    /\ outcomes' = Append(outcomes, "err")
    /\ idx' = idx + 1
    /\ pc' = LoopPc(idx + 1)
    /\ UNCHANGED << exitCode, started, failedStage, args, ingestVars, keys, res,
                    results, slept, fsVars >>

\* variant of Record that puts the result at the front of the accumulator
RecordPrepend ==
    /\ pc = "record"
    /\ results' = <<res>> \o results
    /\ csvFile' = File(csvFile.data \o CsvRows(res))
    /\ outcomes' = Append(outcomes, "ok")
    /\ pc' = "sleep"
    /\ UNCHANGED << exitCode, started, failedStage, args, ingestVars, keys, idx,
                    res, failLog, calls, slept, outDir, jsonFile, htmlFile, wrote >>
\* variant of Record that writes only the first label's row
RecordOneRow ==
    /\ pc = "record"
    /\ results' = Append(results, res)
    /\ csvFile' = File(csvFile.data \o
                       (IF CsvRows(res) = <<>> THEN <<>> ELSE << CsvRows(res)[1] >>))
    /\ outcomes' = Append(outcomes, "ok")
    /\ pc' = "sleep"
    /\ UNCHANGED << exitCode, started, failedStage, args, ingestVars, keys, idx,
                    res, failLog, calls, slept, outDir, jsonFile, htmlFile, wrote >>
\* results.append(res), one writer.writerow per label, print "Labeled"
Record ==
    /\ pc = "record"
    /\ results' = Append(results, res)
    /\ csvFile' = File(csvFile.data \o CsvRows(res))
    /\ outcomes' = Append(outcomes, "ok")
    /\ pc' = "sleep"
    /\ UNCHANGED << exitCode, started, failedStage, args, ingestVars, keys, idx,
                    res, failLog, calls, slept, outDir, jsonFile, htmlFile, wrote >>

\* time.sleep(0.1), then the next key
Sleep ==
    /\ pc = "sleep"
    /\ slept' = slept + DelayMs
    /\ idx' = idx + 1
    /\ pc' = LoopPc(idx + 1)
    /\ UNCHANGED << exitCode, started, failedStage, args, ingestVars, keys, res,
                    results, outcomes, failLog, calls, fsVars >>

\* An exception other than ClientError leaves the key loop (raised at the
\* detector call, or an interrupt during the delay): the with block closes
\* the CSV, nothing catches it, the process ends with a traceback.
LoopCrash ==
    /\ pc \in {"call", "record", "sleep"}
    /\ Uncaught("bulk")
    /\ UNCHANGED << started, args, ingestVars, loopVars, fsVars >>

\* variant of WriteJson that exits with status 1 on an empty accumulator
WriteJsonFailsOnEmpty ==
    /\ pc = "json"
    /\ jsonFile' = File(results)
    /\ wrote' = wrote \cup {"json"}
    /\ IF results = <<>>
       THEN Exit1("bulk")
       ELSE pc' = "report" /\ UNCHANGED << exitCode, failedStage >>
    /\ UNCHANGED << started, args, ingestVars, loopVars, outDir, csvFile, htmlFile >>
\* open(json_path, "w"); json.dump(results)
WriteJson ==
    /\ pc = "json"
    /\ jsonFile' = File(results)
    /\ wrote' = wrote \cup {"json"}
    /\ pc' = "report"
    /\ UNCHANGED << exitCode, started, failedStage, args, ingestVars, loopVars,
                    outDir, csvFile, htmlFile >>

\* ---------------------------------------------- generate_html_report
GenerateReport ==
    /\ pc = "report"
    /\ started' = Append(started, "report")
    /\ htmlFile' = File(HtmlRows(jsonFile.data))
    /\ wrote' = wrote \cup {"html"}
    /\ outDir' = TRUE
    /\ pc' = "done"
    /\ exitCode' = 0
    /\ UNCHANGED << failedStage, args, ingestVars, loopVars, csvFile, jsonFile >>

Next ==
    \/ MakeSession
    \/ EnsureBucket
    \/ UploadFolder
    \/ ListImages
    \/ BulkOpen
    \/ DetectOk
    \/ DetectClientError
    \/ Record
    \/ Sleep
    \/ LoopCrash
    \/ WriteJson
    \/ GenerateReport

Spec == Init /\ [][Next]_vars

\* ------------------------------------------- the Label Detector alone
\* --min-confidence values tried on the detector, in units of 0.001
MinConfChoices == {0, DefaultMinConf, 70004, 93420, 99995}

InitDetect ==
    /\ pc = "detect"
    /\ exitCode = -1
    /\ started = <<>>
    /\ failedStage = "none"
    /\ region = DefaultRegion
    /\ localFolder = "unset"
    /\ localFiles = {}
    /\ maxLabels \in 1..MaxLabelsArg
    /\ minConf \in MinConfChoices
    /\ priorJson = NoFile
    /\ bucketState = "mine"
    /\ bucketObjs \in PreObjChoices
    /\ createReqs = <<>>
    /\ createCode = "none"
    /\ puts = <<>>
    /\ uploaded = 0
    /\ keys = ListedKeys(bucketObjs, DefaultPrefix)
    /\ keys # <<>>
    /\ idx = 1
    /\ res = NoRes
    /\ results = <<>>
    /\ outcomes = <<>>
    /\ failLog = <<>>
    /\ calls = 0
    /\ slept = 0
    /\ outDir = FALSE
    /\ csvFile = NoFile
    /\ jsonFile = NoFile
    /\ htmlFile = NoFile
    /\ wrote = {}

\* one call of detect_labels_for_s3_object, on any response the service's
\* contract allows
DetectAlone ==
    /\ pc = "detect"
    /\ \E resp \in ServiceResponses(maxLabels, minConf) :
         res' = DetectLabels(BucketName, keys[idx], resp)
    /\ calls' = calls + 1
    /\ pc' = "detected"
    /\ UNCHANGED << exitCode, started, failedStage, args, ingestVars, keys, idx,
                    results, outcomes, failLog, slept, fsVars >>

SpecDetect == InitDetect /\ [][DetectAlone]_vars


\* ------------------------------------------------------------ properties
SeqToSet(q) == { q[i] : i \in 1..Len(q) }
Last(q) == q[Len(q)]
OkPositions == { i \in 1..Len(outcomes) : outcomes[i] = "ok" }
ErrPositions == { i \in 1..Len(outcomes) : outcomes[i] = "err" }
\* the key loop has run to its end
LoopDone == pc \in {"json", "report", "done"}
\* bulk_detect_and_save has returned
BulkReturned == pc \in {"report", "done"}
\* the data rows of labels.csv (all but the header)
CsvDataRows == SubSeq(csvFile.data, 2, Len(csvFile.data))

RECURSIVE CountLabels(_)
CountLabels(data) ==
    IF data = <<>> THEN 0 ELSE Len(data[1].labels) + CountLabels(Tail(data))

RECURSIVE AllRows(_)
AllRows(data) ==
    IF data = <<>> THEN <<>> ELSE CsvRows(data[1]) \o AllRows(Tail(data))

C2_JsonEntriesAreOkKeysInOrder ==
    BulkReturned =>
        LET okKeys == SelectSeq([i \in 1..Len(keys) |-> <<i, keys[i]>>],
                                LAMBDA p : p[1] \in OkPositions)
        IN  /\ Len(jsonFile.data) = Len(okKeys)
            /\ \A j \in 1..Len(okKeys) :
                 jsonFile.data[j].image = S3Uri(BucketName, okKeys[j][2])

C2_Witness ==
    /\ pc = "done"
    /\ Len(keys) = 3
    /\ outcomes = <<"ok", "err", "ok">>
    /\ jsonFile.data[1].image = S3Uri(BucketName, keys[1])
    /\ jsonFile.data[2].image = S3Uri(BucketName, keys[3])

\* C3: once bulk_detect_and_save has returned, the CSV data rows and the
\* labels of labels.json correspond one to one: equal counts, every row is
\* the row of a label of a JSON entry with that image, every label has a row.
C3_CsvRowsMatchJsonLabels ==
    BulkReturned =>
        /\ csvFile.data[1] = CsvHeader
        /\ Len(CsvDataRows) = CountLabels(jsonFile.data)
        /\ \A r \in 1..Len(CsvDataRows) :
             \E j \in 1..Len(jsonFile.data) :
                /\ jsonFile.data[j].image = CsvDataRows[r][1]
                /\ \E l \in 1..Len(jsonFile.data[j].labels) :
                     /\ jsonFile.data[j].labels[l].name = CsvDataRows[r][2]
                     /\ jsonFile.data[j].labels[l].confidence = CsvDataRows[r][3]
        /\ \A j \in 1..Len(jsonFile.data) :
             \A l \in 1..Len(jsonFile.data[j].labels) :
                Cardinality({ r \in 1..Len(CsvDataRows) :
                                /\ CsvDataRows[r][1] = jsonFile.data[j].image
                                /\ CsvDataRows[r][2] = jsonFile.data[j].labels[l].name }) = 1

C3_Witness ==
    /\ pc = "done"
    /\ ErrPositions # {}
    /\ Len(jsonFile.data) = 2
    /\ Len(CsvDataRows) = 3

\* C4: when every detector call of a run raised ClientError, the run goes on
\* to write labels.csv with the header only and labels.json with an empty
\* array, then the report, and ends with exit status 0.
AllFailed == keys # <<>> /\ Len(outcomes) = Len(keys) /\ OkPositions = {}
StageRank(st) ==
    CASE st = "session" -> 1 [] st = "bucket" -> 2 [] st = "upload" -> 3
      [] st = "list" -> 4 [] st = "bulk" -> 5 [] OTHER -> 6
C5_NoStageAfterFatalFailure ==
    /\ ("list" \in SeqToSet(started) /\ keys = <<>>) =>
          /\ pc = "exit" /\ exitCode = 1 /\ failedStage = "list"
          /\ calls = 0
          /\ wrote = {}
    /\ \A i, j \in 1..Len(started) :
          i < j => StageRank(started[i]) < StageRank(started[j])
    /\ failedStage # "none" =>
          /\ Last(started) = failedStage
          /\ exitCode = 1
          /\ pc \in {"exit", "crashed"}
    /\ pc = "exit" => failedStage # "none"

C5_Witness ==
    /\ pc = "exit"
    /\ failedStage = "list"
    /\ "upload" \notin SeqToSet(started)
    /\ bucketObjs # <<>>
    /\ calls = 0

\* C6: upload_folder_to_s3 on an existing folder issues exactly one
\* upload_file per file with a .jpg/.jpeg/.png extension (any case) and none
\* for another file, counts them, and exits with status 1 exactly when the
\* count is zero.
ImageFiles ==
    { <<"a", ".", "j", "p", "g">>,
      <<"b", ".", "P", "N", "G">>,
      <<"s", "/", "d", ".", "j", "p", "e", "g">> }
C6_UploadsExactlyTheImages ==
    ("upload" \in SeqToSet(started) /\ localFolder = "dir") =>
        LET want == localFiles \cap ImageFiles
        IN  /\ \A f \in want :
                 Cardinality({ i \in 1..Len(puts) : puts[i] = DefaultPrefix \o f }) = 1
            /\ Len(puts) = Cardinality(want)
            /\ uploaded = Cardinality(want)
            /\ (failedStage = "upload") <=> (uploaded = 0)
            /\ failedStage = "upload" => pc = "exit" /\ exitCode = 1

C6_Witness ==
    /\ pc = "list"
    /\ localFiles = { <<"a", ".", "j", "p", "g">>, <<"b", ".", "P", "N", "G">>,
                      <<"c", ".", "t", "x", "t">> }
    /\ uploaded = 2
    /\ Len(puts) = 2

\* C7 as written: every stored confidence lies in [min_confidence, 100] and
\* there are at most max_labels labels.
C7_Original ==
    pc = "detected" =>
        /\ Len(res.labels) <= maxLabels
        /\ \A i \in 1..Len(res.labels) :
             /\ res.labels[i].confidence >= minConf
             /\ res.labels[i].confidence <= MaxConf

\* C7 amended: every stored confidence is a multiple of 0.01 in
\* [round(min_confidence, 2), 100], and there are at most max_labels labels.
C7_RoundedConfidenceInRange ==
    pc = "detected" =>
        /\ Len(res.labels) <= maxLabels
        /\ \A i \in 1..Len(res.labels) :
             /\ res.labels[i].confidence >= Round2(minConf)
             /\ res.labels[i].confidence <= MaxConf
             /\ res.labels[i].confidence % 10 = 0

C7_Witness ==
    /\ pc = "detected"
    /\ minConf = 70004
    /\ Len(res.labels) = maxLabels
    /\ \E i \in 1..Len(res.labels) : res.labels[i].confidence = 70000

\* C8 as written: only "created" and BucketAlreadyOwnedByYou pass; any other
\* answer ends the process in ensure_bucket.
C8_Original ==
    createCode \notin {"none", "created", "BucketAlreadyOwnedByYou"} =>
        /\ pc = "exit"
        /\ failedStage = "bucket"
        /\ Last(started) = "bucket"

\* C8 amended: "created", BucketAlreadyOwnedByYou and BucketAlreadyExists
\* pass; any other answer ends the process in ensure_bucket with status 1 and
\* no later stage is entered.
C8_ThreeOutcomesPass ==
    createCode # "none" =>
        IF createCode \in {"created", "BucketAlreadyOwnedByYou", "BucketAlreadyExists"}
        THEN /\ failedStage # "bucket"
             /\ Last(started) = "bucket" => pc = AfterBucket
        ELSE /\ pc = "exit"
             /\ exitCode = 1
             /\ failedStage = "bucket"
             /\ Last(started) = "bucket"

C8_Witness ==
    /\ createCode = "BucketAlreadyExists"
    /\ bucketState = "theirs"
    /\ "list" \in SeqToSet(started)

\* C9 as written: when a detector call begins, a delay has followed every
\* earlier call.
C9_Original == pc = "call" => slept >= DelayMs * calls

\* C9 amended: the delay follows exactly the calls that succeeded: whenever
\* a call begins or the loop has ended, the time slept is 100 ms per
\* successful call and nothing for a failed one.
C9_DelayOnlyAfterSuccess ==
    pc \in {"call", "json", "report", "done"} =>
        slept = DelayMs * Cardinality(OkPositions)

C9_Witness ==
    /\ pc = "call"
    /\ outcomes = <<"ok", "err">>
    /\ slept = DelayMs

====
